---------------------------- MODULE Spec2Model ----------------------------
(***************************************************************************)
(* Model of two parts of mavros:                                           *)
(*   - MagCalStatusPlugin (src/mavros/src/plugins/mag_calibration_status   *)
(*     .cpp): merges MAG_CAL_PROGRESS reports of up to three compasses     *)
(*     into one aggregate and forwards MAG_CAL_REPORT status codes;        *)
(*   - the setpoint mixins (src/mavros/include/mavros/setpoint_mixin.hpp): *)
(*     set_position_target_local_ned, set_position_target_global_int and   *)
(*     set_attitude_target.                                                *)
(***************************************************************************)
EXTENDS Integers, Sequences, FiniteSets, TLC

VARIABLES
    rgCompassCalProgress, \* uint8_t _rgCompassCalProgress[3]
    mcs_pub,              \* what the last handler published on "status"
    mcr_pub,              \* what the last handler published on "report"
    inbox,                \* the decoded message the dispatcher is delivering
                          \* to the plugin (NoMsg: none)
    handled,              \* whether the plugin's handler has run on inbox
    session,              \* cal_mask of the running session (0: unconstrained)
    uas,                  \* the UAS target system / component
    tx,                   \* what the last mixin call handed to the transport
    call,                 \* the last mixin call: its name, its arguments and
                          \* the UAS target it ran with
    prev_call,            \* the mixin call before it
    prev_tx               \* what that call handed to the transport

vars == <<rgCompassCalProgress, mcs_pub, mcr_pub, inbox, handled, session,
          uas, tx, call, prev_call, prev_tx>>

calVars == <<rgCompassCalProgress, mcs_pub, mcr_pub, inbox, handled, session>>
mixinVars == <<uas, tx, call, prev_call, prev_tx>>

---------------------------------------------------------------------------
(* Fixed-width integers                                                    *)

UInt8(n) == n % 256

RECURSIVE Pow2(_)
Pow2(n) == IF n = 0 THEN 1 ELSE 2 * Pow2(n - 1)

\* mask & (1 << i), as a truth value
BitSet(mask, i) == (mask \div Pow2(i)) % 2 = 1

---------------------------------------------------------------------------
(* MagCalStatusPlugin                                                      *)

\* size of _rgCompassCalProgress and of the counting loop
NumCompasses == 3

\* bounds of the message fields the model enumerates (all are uint8_t)
MaxCompassId == 5
MaxCalMask == 9
MaxCalStatus == 4
PctValues == {0, 50, 100}

CompassIds == (0..NumCompasses) \cup {MaxCompassId}
CalMasks == 0..MaxCalMask
CalStatuses == 0..MaxCalStatus

NoMsg == [op |-> "none", compass_id |-> 0, cal_mask |-> 0,
          completion_pct |-> 0, cal_status |-> 0]
Progress(id, mask, pct) ==
    [op |-> "status", compass_id |-> id, cal_mask |-> mask,
     completion_pct |-> pct, cal_status |-> 0]
Report(st) ==
    [op |-> "report", compass_id |-> 0, cal_mask |-> 0,
     completion_pct |-> 0, cal_status |-> st]

\* the counting loop with NumCompasses + 1 iterations
RECURSIVE CountLoopWide(_, _, _)
CountLoopWide(cal_mask, i, count) ==
    IF i < NumCompasses + 1
    THEN CountLoopWide(cal_mask, i + 1,
                       IF BitSet(cal_mask, i) THEN count + 1 ELSE count)
    ELSE count
compassCalCountWide(cal_mask) == CountLoopWide(cal_mask, 0, 0)

\* for (int i=0; i<3; i++) if (mp.cal_mask & (1 << i)) compassCalCount++;
RECURSIVE CountLoop(_, _, _)
CountLoop(cal_mask, i, count) ==
    IF i < NumCompasses
    THEN CountLoop(cal_mask, i + 1,
                   IF BitSet(cal_mask, i) THEN count + 1 ELSE count)
    ELSE count
compassCalCount(cal_mask) == CountLoop(cal_mask, 0, 0)

\* the store without the division by the number of compasses
StoreProgressWhole(progress, mp) ==
    IF mp.compass_id < NumCompasses /\ compassCalCount(mp.cal_mask) # 0
    THEN [progress EXCEPT ![mp.compass_id] = UInt8(mp.completion_pct)]
    ELSE progress

\* if (mp.compass_id < 3 && compassCalCount != 0)
\*     _rgCompassCalProgress[mp.compass_id] = mp.completion_pct / compassCalCount;
StoreProgress(progress, mp) ==
    IF mp.compass_id < NumCompasses /\ compassCalCount(mp.cal_mask) # 0
    THEN [progress EXCEPT ![mp.compass_id] =
              UInt8(mp.completion_pct \div compassCalCount(mp.cal_mask))]
    ELSE progress

\* mcs->data = (_rgCompassCalProgress[0] + [1] + [2]);  (int to uint8_t)
StatusData(progress) == UInt8(progress[0] + progress[1] + progress[2])

\* a handler that publishes only when the report was stored
PublishStatusIfStored(progress, mp) ==
    IF mp.compass_id < NumCompasses /\ compassCalCount(mp.cal_mask) # 0
    THEN <<StatusData(progress)>>
    ELSE <<>>

\* mcs_pub.publish(mcs): unconditional, after the store
PublishStatus(progress, mp) == <<StatusData(progress)>>

handle_status(mp) ==
    LET progress == StoreProgress(rgCompassCalProgress, mp) IN
    /\ mp.op = "status"
    /\ ~handled
    /\ rgCompassCalProgress' = progress
    /\ mcs_pub' = PublishStatus(progress, mp)
    /\ mcr_pub' = <<>>
    /\ handled' = TRUE
    /\ UNCHANGED inbox
    /\ UNCHANGED session
    /\ UNCHANGED mixinVars

\* mcr->data = mr.cal_status; mcr_pub.publish(mcr);
PublishReport(mr) == <<UInt8(mr.cal_status)>>

\* a report handler that also clears the progress of the finished session
handle_report_reset(mr) ==
    /\ mr.op = "report"
    /\ ~handled
    /\ rgCompassCalProgress' = [i \in 0..(NumCompasses - 1) |-> 0]
    /\ mcr_pub' = PublishReport(mr)
    /\ mcs_pub' = <<>>
    /\ handled' = TRUE
    /\ UNCHANGED inbox
    /\ UNCHANGED session
    /\ UNCHANGED mixinVars

handle_report(mr) ==
    /\ mr.op = "report"
    /\ ~handled
    /\ UNCHANGED rgCompassCalProgress
    /\ mcr_pub' = PublishReport(mr)
    /\ mcs_pub' = <<>>
    /\ handled' = TRUE
    /\ UNCHANGED inbox
    /\ UNCHANGED session
    /\ UNCHANGED mixinVars

NoCall == [op |-> "none", args |-> <<>>, uas |-> <<>>]

CalInit ==
    /\ rgCompassCalProgress = [i \in 0..(NumCompasses - 1) |-> 0]
    /\ mcs_pub = <<>>
    /\ mcr_pub = <<>>
    /\ inbox = NoMsg
    /\ handled = FALSE
    /\ session = 0
    /\ uas = [tgt_system |-> 1, tgt_component |-> 1]
    /\ tx = <<>>
    /\ call = NoCall
    /\ prev_call = NoCall
    /\ prev_tx = <<>>

\* The dispatcher takes one decoded message, invokes the handler subscribed
\* to its type (get_subscriptions: MAG_CAL_PROGRESS to handle_status,
\* MAG_CAL_REPORT to handle_report), which runs to completion, and returns.
Dispatch(m) ==
    /\ inbox = NoMsg
    /\ inbox' = m
    /\ handled' = FALSE
    /\ UNCHANGED <<rgCompassCalProgress, mcs_pub, mcr_pub, session>>
    /\ UNCHANGED mixinVars

Return ==
    /\ handled
    /\ inbox' = NoMsg
    /\ handled' = FALSE
    /\ UNCHANGED <<rgCompassCalProgress, mcs_pub, mcr_pub, session>>
    /\ UNCHANGED mixinVars

RecvProgress ==
    \E id \in CompassIds, mask \in CalMasks, pct \in PctValues :
        Dispatch(Progress(id, mask, pct))

RecvReport == \E st \in CalStatuses : Dispatch(Report(st))

HandleStatus == handle_status(inbox)

HandleReport == handle_report(inbox)

CalNext ==
    RecvProgress \/ RecvReport \/ HandleStatus \/ HandleReport \/ Return

SpecCal == CalInit /\ [][CalNext]_vars

\* One calibration session: every progress report carries the session's
\* cal_mask, comes from a compass of that mask and reports at most 100 %.
PctStep == 20
SessionPct == {k * PctStep : k \in 0..(100 \div PctStep)}

SessionInit ==
    /\ rgCompassCalProgress = [i \in 0..(NumCompasses - 1) |-> 0]
    /\ mcs_pub = <<>>
    /\ mcr_pub = <<>>
    /\ inbox = NoMsg
    /\ handled = FALSE
    /\ session \in 1..MaxCalMask
    /\ uas = [tgt_system |-> 1, tgt_component |-> 1]
    /\ tx = <<>>
    /\ call = NoCall
    /\ prev_call = NoCall
    /\ prev_tx = <<>>

SessionProgress ==
    \E id \in CompassIds, pct \in SessionPct :
        /\ BitSet(session, id)
        /\ Dispatch(Progress(id, session, pct))

SessionNext ==
    SessionProgress \/ RecvReport \/ HandleStatus \/ HandleReport \/ Return

SpecSession == SessionInit /\ [][SessionNext]_vars

---------------------------------------------------------------------------
(* Setpoint mixins                                                         *)

\* Eigen::Vector3d / Eigen::Quaterniond components are doubles, the MAVLink
\* fields they are assigned to are floats.  Doubles are modelled by the
\* integers (all exactly representable as doubles in the range used); a
\* float holds 24 significant bits, so the assignment rounds an integer of
\* more than 24 bits to the nearest representable one, ties to even.
RECURSIVE Spacing(_, _)
Spacing(a, s) == IF a < s * Pow2(24) THEN s ELSE Spacing(a, 2 * s)

RoundNearestEven(a, s) ==
    LET q == a \div s
        r == a % s
    IN  IF 2 * r < s THEN q * s
        ELSE IF 2 * r > s THEN (q + 1) * s
        ELSE IF q % 2 = 0 THEN q * s ELSE (q + 1) * s

ToFloat(d) ==
    IF d >= 0 THEN RoundNearestEven(d, Spacing(d, 1))
    ELSE -RoundNearestEven(-d, Spacing(-d, 1))

Vec3(a, b, c) == [i \in 0..2 |-> IF i = 0 THEN a ELSE IF i = 1 THEN b ELSE c]
Quat(w, x, y, z) == [w |-> w, x |-> x, y |-> y, z |-> z]

\* mavros::ftf::quaternion_to_mavlink(orientation, sp.q): q = {w, x, y, z}
quaternion_to_mavlink(q) ==
    <<ToFloat(q.w), ToFloat(q.x), ToFloat(q.y), ToFloat(q.z)>>

\* uas_->msg_set_target(sp)
msg_set_target(u, sp) ==
    [sp EXCEPT !.target_system = u.tgt_system,
               !.target_component = u.tgt_component]

\* uas_->send_message(sp)
send_message(link, sp) == Append(link, sp)

\* mavlink::common::msg::SET_POSITION_TARGET_LOCAL_NED sp = {};
ZeroLocalNED ==
    [name |-> "SET_POSITION_TARGET_LOCAL_NED",
     time_boot_ms |-> 0, target_system |-> 0, target_component |-> 0,
     coordinate_frame |-> 0, type_mask |-> 0,
     x |-> 0, y |-> 0, z |-> 0, vx |-> 0, vy |-> 0, vz |-> 0,
     afx |-> 0, afy |-> 0, afz |-> 0, yaw |-> 0, yaw_rate |-> 0]

\* mavlink::common::msg::SET_POSITION_TARGET_GLOBAL_INT sp = {};
ZeroGlobalInt ==
    [name |-> "SET_POSITION_TARGET_GLOBAL_INT",
     time_boot_ms |-> 0, target_system |-> 0, target_component |-> 0,
     coordinate_frame |-> 0, type_mask |-> 0,
     lat_int |-> 0, lon_int |-> 0, alt |-> 0, vx |-> 0, vy |-> 0, vz |-> 0,
     afx |-> 0, afy |-> 0, afz |-> 0, yaw |-> 0, yaw_rate |-> 0]

\* mavlink::common::msg::SET_ATTITUDE_TARGET sp = {};
ZeroAttitude ==
    [name |-> "SET_ATTITUDE_TARGET",
     time_boot_ms |-> 0, target_system |-> 0, target_component |-> 0,
     type_mask |-> 0, q |-> <<0, 0, 0, 0>>,
     body_roll_rate |-> 0, body_pitch_rate |-> 0, body_yaw_rate |-> 0,
     thrust |-> 0]

\* the encoder with the velocity's y and z axes exchanged
set_position_target_local_ned_swapped(u, a) ==
    LET sp == [msg_set_target(u, ZeroLocalNED) EXCEPT
                  !.time_boot_ms = a.time_boot_ms,
                  !.coordinate_frame = a.coordinate_frame,
                  !.type_mask = a.type_mask,
                  !.yaw = a.yaw,
                  !.yaw_rate = a.yaw_rate,
                  !.x = ToFloat(a.p[0]),
                  !.y = ToFloat(a.p[1]),
                  !.z = ToFloat(a.p[2]),
                  !.vx = ToFloat(a.v[0]),
                  !.vy = ToFloat(a.v[2]),
                  !.vz = ToFloat(a.v[1]),
                  !.afx = ToFloat(a.af[0]),
                  !.afy = ToFloat(a.af[1]),
                  !.afz = ToFloat(a.af[2])]
    IN  send_message(<<>>, sp)

\* the encoder that sends the message twice
set_position_target_local_ned_twice(u, a) ==
    LET sp == [msg_set_target(u, ZeroLocalNED) EXCEPT
                  !.time_boot_ms = a.time_boot_ms,
                  !.coordinate_frame = a.coordinate_frame,
                  !.type_mask = a.type_mask,
                  !.yaw = a.yaw,
                  !.yaw_rate = a.yaw_rate,
                  !.x = ToFloat(a.p[0]),
                  !.y = ToFloat(a.p[1]),
                  !.z = ToFloat(a.p[2]),
                  !.vx = ToFloat(a.v[0]),
                  !.vy = ToFloat(a.v[1]),
                  !.vz = ToFloat(a.v[2]),
                  !.afx = ToFloat(a.af[0]),
                  !.afy = ToFloat(a.af[1]),
                  !.afz = ToFloat(a.af[2])]
    IN  send_message(send_message(<<>>, sp), sp)

\* SetPositionTargetLocalNEDMixin::set_position_target_local_ned
set_position_target_local_ned(u, a) ==
    LET sp == [msg_set_target(u, ZeroLocalNED) EXCEPT
                  !.time_boot_ms = a.time_boot_ms,
                  !.coordinate_frame = a.coordinate_frame,
                  !.type_mask = a.type_mask,
                  !.yaw = a.yaw,
                  !.yaw_rate = a.yaw_rate,
                  !.x = ToFloat(a.p[0]),
                  !.y = ToFloat(a.p[1]),
                  !.z = ToFloat(a.p[2]),
                  !.vx = ToFloat(a.v[0]),
                  !.vy = ToFloat(a.v[1]),
                  !.vz = ToFloat(a.v[2]),
                  !.afx = ToFloat(a.af[0]),
                  !.afy = ToFloat(a.af[1]),
                  !.afz = ToFloat(a.af[2])]
    IN  send_message(<<>>, sp)

\* the encoder without the call of msg_set_target
set_position_target_global_int_untargeted(u, a) ==
    LET sp == [ZeroGlobalInt EXCEPT
                  !.time_boot_ms = a.time_boot_ms,
                  !.coordinate_frame = a.coordinate_frame,
                  !.type_mask = a.type_mask,
                  !.lat_int = a.lat_int,
                  !.lon_int = a.lon_int,
                  !.alt = a.alt,
                  !.yaw = a.yaw,
                  !.yaw_rate = a.yaw_rate,
                  !.vx = ToFloat(a.v[0]),
                  !.vy = ToFloat(a.v[1]),
                  !.vz = ToFloat(a.v[2]),
                  !.afx = ToFloat(a.af[0]),
                  !.afy = ToFloat(a.af[1]),
                  !.afz = ToFloat(a.af[2])]
    IN  send_message(<<>>, sp)

\* SetPositionTargetGlobalIntMixin::set_position_target_global_int
set_position_target_global_int(u, a) ==
    LET sp == [msg_set_target(u, ZeroGlobalInt) EXCEPT
                  !.time_boot_ms = a.time_boot_ms,
                  !.coordinate_frame = a.coordinate_frame,
                  !.type_mask = a.type_mask,
                  !.lat_int = a.lat_int,
                  !.lon_int = a.lon_int,
                  !.alt = a.alt,
                  !.yaw = a.yaw,
                  !.yaw_rate = a.yaw_rate,
                  !.vx = ToFloat(a.v[0]),
                  !.vy = ToFloat(a.v[1]),
                  !.vz = ToFloat(a.v[2]),
                  !.afx = ToFloat(a.af[0]),
                  !.afy = ToFloat(a.af[1]),
                  !.afz = ToFloat(a.af[2])]
    IN  send_message(<<>>, sp)

\* the encoder with the roll and pitch rates exchanged
set_attitude_target_swapped(u, a) ==
    LET sp0 == msg_set_target(u, ZeroAttitude)
        sp1 == [sp0 EXCEPT !.q = quaternion_to_mavlink(a.orientation)]
        sp == [sp1 EXCEPT
                  !.time_boot_ms = a.time_boot_ms,
                  !.type_mask = a.type_mask,
                  !.thrust = a.thrust,
                  !.body_roll_rate = ToFloat(a.body_rate[1]),
                  !.body_pitch_rate = ToFloat(a.body_rate[0]),
                  !.body_yaw_rate = ToFloat(a.body_rate[2])]
    IN  send_message(<<>>, sp)

\* SetAttitudeTargetMixin::set_attitude_target
set_attitude_target(u, a) ==
    LET sp0 == msg_set_target(u, ZeroAttitude)
        sp1 == [sp0 EXCEPT !.q = quaternion_to_mavlink(a.orientation)]
        sp == [sp1 EXCEPT
                  !.time_boot_ms = a.time_boot_ms,
                  !.type_mask = a.type_mask,
                  !.thrust = a.thrust,
                  !.body_roll_rate = ToFloat(a.body_rate[0]),
                  !.body_pitch_rate = ToFloat(a.body_rate[1]),
                  !.body_yaw_rate = ToFloat(a.body_rate[2])]
    IN  send_message(<<>>, sp)

\* Arguments the callers pass.  Every scalar takes two values of its C++
\* type; every vector one value of small components and one whose
\* components need more than 24 bits.
BigOdd == Pow2(24) + 1
Vec3Values == {Vec3(1, 2, 3), Vec3(-BigOdd, 0, Pow2(24) + 3)}
QuatValues == {Quat(1, 0, 0, 0), Quat(0, BigOdd, -2, 3)}
\* a time_boot_ms in the upper range TLC's integers can hold
LateBoot == Pow2(30) + 1000

LocalScalars ==
    {[time_boot_ms |-> 1000, coordinate_frame |-> 1, type_mask |-> 3576,
      yaw |-> 2, yaw_rate |-> -1],
     [time_boot_ms |-> LateBoot, coordinate_frame |-> 255,
      type_mask |-> 65535, yaw |-> -3, yaw_rate |-> 5]}

LocalArgs ==
    {[time_boot_ms |-> s.time_boot_ms, coordinate_frame |-> s.coordinate_frame,
      type_mask |-> s.type_mask, p |-> p, v |-> v, af |-> af,
      yaw |-> s.yaw, yaw_rate |-> s.yaw_rate] :
        s \in LocalScalars, p \in Vec3Values, v \in Vec3Values,
        af \in Vec3Values}

GlobalScalars ==
    {[time_boot_ms |-> 1000, coordinate_frame |-> 5, type_mask |-> 3576,
      lat_int |-> 473977418, lon_int |-> -85455939, alt |-> 488,
      yaw |-> 2, yaw_rate |-> -1],
     [time_boot_ms |-> LateBoot, coordinate_frame |-> 255,
      type_mask |-> 65535, lat_int |-> -Pow2(30), lon_int |-> Pow2(30) + 1,
      alt |-> -7, yaw |-> -3, yaw_rate |-> 5]}

GlobalArgs ==
    {[time_boot_ms |-> s.time_boot_ms, coordinate_frame |-> s.coordinate_frame,
      type_mask |-> s.type_mask, lat_int |-> s.lat_int, lon_int |-> s.lon_int,
      alt |-> s.alt, v |-> v, af |-> af,
      yaw |-> s.yaw, yaw_rate |-> s.yaw_rate] :
        s \in GlobalScalars, v \in Vec3Values, af \in Vec3Values}

AttitudeScalars ==
    {[time_boot_ms |-> 1000, type_mask |-> 7, thrust |-> 1],
     [time_boot_ms |-> LateBoot, type_mask |-> 255, thrust |-> -2]}

AttitudeArgs ==
    {[time_boot_ms |-> s.time_boot_ms, type_mask |-> s.type_mask,
      orientation |-> q, body_rate |-> r, thrust |-> s.thrust] :
        s \in AttitudeScalars, q \in QuatValues, r \in Vec3Values}

Targets ==
    {[tgt_system |-> 1, tgt_component |-> 1],
     [tgt_system |-> 2, tgt_component |-> 191]}

\* A caller (a plugin's setpoint callback) invokes a mixin.
Invoke(op, a, sent) ==
    /\ tx' = sent
    /\ call' = [op |-> op, args |-> a, uas |-> uas]
    /\ prev_call' = call
    /\ prev_tx' = tx
    /\ UNCHANGED uas
    /\ UNCHANGED calVars

SetPositionTargetLocalNED ==
    \E a \in LocalArgs :
        Invoke("set_position_target_local_ned", a,
               set_position_target_local_ned(uas, a))

SetPositionTargetGlobalInt ==
    \E a \in GlobalArgs :
        Invoke("set_position_target_global_int", a,
               set_position_target_global_int(uas, a))

SetAttitudeTarget ==
    \E a \in AttitudeArgs :
        Invoke("set_attitude_target", a, set_attitude_target(uas, a))

\* UAS::set_tgt: the target system / component is reconfigured
set_tgt ==
    \E t \in Targets :
        /\ t # uas
        /\ uas' = t
        /\ UNCHANGED <<tx, call, prev_call, prev_tx>>
        /\ UNCHANGED calVars

MixinNext ==
    \/ SetPositionTargetLocalNED
    \/ SetPositionTargetGlobalInt
    \/ SetAttitudeTarget
    \/ set_tgt

\* the plugin is loaded and no MAVLink message has arrived
MixinInit ==
    /\ rgCompassCalProgress = [i \in 0..(NumCompasses - 1) |-> 0]
    /\ mcs_pub = <<>>
    /\ mcr_pub = <<>>
    /\ inbox = NoMsg
    /\ handled = FALSE
    /\ session = 0
    /\ uas = [tgt_system |-> 1, tgt_component |-> 1]
    /\ tx = <<>>
    /\ call = NoCall
    /\ prev_call = NoCall
    /\ prev_tx = <<>>

SpecMixin == MixinInit /\ [][MixinNext]_vars

---------------------------------------------------------------------------
(* Properties of MagCalStatusPlugin                                        *)

\* number of set bits of a natural number
RECURSIVE PopCount(_)
PopCount(n) == IF n = 0 THEN 0 ELSE (n % 2) + PopCount(n \div 2)

\* the three compass bits of a cal_mask
Low3(mask) == mask % 8

\* an accepted progress report: compass below 3 and at least one of the
\* three compass bits set
Accepted(m) == m.op = "status" /\ m.compass_id < 3 /\ Low3(m.cal_mask) # 0
Ignored(m) == m.op = "status" /\ ~Accepted(m)

\* the handler is about to run on the delivered message
Pending == inbox # NoMsg /\ ~handled

Sum3(progress) == progress[0] + progress[1] + progress[2]

ProgressOf(a, b, c) == [i \in 0..2 |-> IF i = 0 THEN a ELSE IF i = 1 THEN b ELSE c]

\* C1: an accepted progress report sets per_sensor_progress[sensor_id] to
\* completion_pct divided (truncating) by the number of set compass bits of
\* cal_mask and leaves the other two entries unchanged.
C1_StoreQuotient ==
    [][(Pending /\ Accepted(inbox)) =>
         rgCompassCalProgress' =
             [rgCompassCalProgress EXCEPT ![inbox.compass_id] =
                  inbox.completion_pct \div PopCount(Low3(inbox.cal_mask))]]_vars

\* from [0,0,0]: mask 0b011, sensor 0, 50 % gives [25,0,0]; a later report of
\* sensor 2 with mask 0b111 and 100 % stores the truncated quotient 33
C1_Witness ==
    /\ handled
    /\ inbox = Progress(2, 7, 100)
    /\ rgCompassCalProgress = ProgressOf(25, 0, 33)
    /\ mcs_pub = <<58>>

\* C2 (as claimed): the value an accepted progress report publishes on the
\* status channel is the integer sum of the three entries after the update.
C2_PublishedIsSum ==
    [][(Pending /\ Accepted(inbox)) => mcs_pub' = <<Sum3(rgCompassCalProgress')>>]_vars

\* C3 (as claimed): an ignored progress report changes no entry and
\* publishes neither on the status channel nor on the report channel.
C3_IgnoredIsSilent ==
    [][(Pending /\ Ignored(inbox)) =>
         /\ rgCompassCalProgress' = rgCompassCalProgress
         /\ mcs_pub' = <<>>
         /\ mcr_pub' = <<>>]_vars

\* C3 (amended): an ignored progress report changes no entry and publishes
\* nothing on the report channel, but it does publish once on the status
\* channel: the aggregate of the unchanged entries, as an unsigned byte.
C3_IgnoredRepublishes ==
    [][(Pending /\ Ignored(inbox)) =>
         /\ rgCompassCalProgress' = rgCompassCalProgress
         /\ mcs_pub' = <<Sum3(rgCompassCalProgress) % 256>>
         /\ mcr_pub' = <<>>]_vars

C3_Witness ==
    /\ handled
    /\ inbox = Progress(5, 3, 100)
    /\ rgCompassCalProgress = ProgressOf(25, 50, 0)
    /\ mcs_pub = <<75>>
    /\ mcr_pub = <<>>

\* C4: a final report publishes exactly cal_status on the report channel,
\* nothing on the status channel, and leaves the entries unchanged, so any
\* later progress report publishes what it would have published without it.
C4_ReportIsFrame ==
    [][(Pending /\ inbox.op = "report") =>
         /\ mcr_pub' = <<inbox.cal_status>>
         /\ mcs_pub' = <<>>
         /\ rgCompassCalProgress' = rgCompassCalProgress
         /\ \A id \in CompassIds, mask \in CalMasks, pct \in PctValues :
               LET m == Progress(id, mask, pct) IN
               PublishStatus(StoreProgress(rgCompassCalProgress', m), m) =
               PublishStatus(StoreProgress(rgCompassCalProgress, m), m)]_vars

C4_Witness ==
    /\ handled
    /\ inbox = Report(4)
    /\ mcr_pub = <<4>>
    /\ mcs_pub = <<>>
    /\ rgCompassCalProgress = ProgressOf(25, 50, 0)

\* C9: within one session (same non-empty cal_mask, reporting compass in
\* the mask, completion_pct at most 100) every value published on the status
\* channel is at most 100.
C9_SessionAtMost100 ==
    \A i \in 1..Len(mcs_pub) : mcs_pub[i] <= 100

C9_Witness ==
    /\ session = 3
    /\ handled
    /\ inbox = Progress(1, 3, 100)
    /\ rgCompassCalProgress = ProgressOf(50, 50, 0)
    /\ mcs_pub = <<100>>

\* C10: only bits 0..2 of cal_mask matter: a report with mask m is handled
\* exactly as the same report with mask (m AND 0b111); a mask with no bit
\* below bit 3 changes no entry.
C10_OnlyLowBits ==
    [][(Pending /\ inbox.op = "status") =>
         LET m7 == [inbox EXCEPT !.cal_mask = Low3(@)] IN
         /\ rgCompassCalProgress' = StoreProgress(rgCompassCalProgress, m7)
         /\ mcs_pub' = PublishStatus(StoreProgress(rgCompassCalProgress, m7), m7)
         /\ (Low3(inbox.cal_mask) = 0 =>
                rgCompassCalProgress' = rgCompassCalProgress)]_vars

C10_Witness ==
    /\ handled
    /\ inbox = Progress(0, 9, 100)
    /\ rgCompassCalProgress = ProgressOf(100, 50, 0)
    /\ mcs_pub = <<150>>

---------------------------------------------------------------------------
(* Properties of the setpoint mixins                                       *)

LocalNED == "set_position_target_local_ned"
GlobalInt == "set_position_target_global_int"
Attitude == "set_attitude_target"

\* the scalar fields both position-target messages copy from the arguments
ScalarsCopied(m, a) ==
    /\ m.time_boot_ms = a.time_boot_ms
    /\ m.coordinate_frame = a.coordinate_frame
    /\ m.type_mask = a.type_mask
    /\ m.yaw = a.yaw
    /\ m.yaw_rate = a.yaw_rate

GlobalCopied(m, a) ==
    /\ m.lat_int = a.lat_int
    /\ m.lon_int = a.lon_int
    /\ m.alt = a.alt

\* C5 (as claimed): the vector fields of both position-target messages
\* equal the axes 0, 1, 2 of the argument vectors (reading them back
\* reproduces the vectors) and the scalar fields equal the arguments.
C5_FieldsEqualAxes ==
    /\ call.op = LocalNED =>
         LET m == tx[1]
             a == call.args
         IN  /\ ScalarsCopied(m, a)
             /\ Vec3(m.x, m.y, m.z) = a.p
             /\ Vec3(m.vx, m.vy, m.vz) = a.v
             /\ Vec3(m.afx, m.afy, m.afz) = a.af
    /\ call.op = GlobalInt =>
         LET m == tx[1]
             a == call.args
         IN  /\ ScalarsCopied(m, a)
             /\ GlobalCopied(m, a)
             /\ Vec3(m.vx, m.vy, m.vz) = a.v
             /\ Vec3(m.afx, m.afy, m.afz) = a.af

\* C5 (amended): each vector field holds the axis of the same position
\* (0, 1, 2) of its argument vector converted from double to single
\* precision, nothing swapped, negated or scaled; the scalar fields equal
\* the arguments.  Reading the vector fields back reproduces a component
\* exactly when it is representable in single precision.
C5_FieldsAreNarrowedAxes ==
    /\ call.op = LocalNED =>
         LET m == tx[1]
             a == call.args
         IN  /\ ScalarsCopied(m, a)
             /\ Vec3(m.x, m.y, m.z) = [i \in 0..2 |-> ToFloat(a.p[i])]
             /\ Vec3(m.vx, m.vy, m.vz) = [i \in 0..2 |-> ToFloat(a.v[i])]
             /\ Vec3(m.afx, m.afy, m.afz) = [i \in 0..2 |-> ToFloat(a.af[i])]
    /\ call.op = GlobalInt =>
         LET m == tx[1]
             a == call.args
         IN  /\ ScalarsCopied(m, a)
             /\ GlobalCopied(m, a)
             /\ Vec3(m.vx, m.vy, m.vz) = [i \in 0..2 |-> ToFloat(a.v[i])]
             /\ Vec3(m.afx, m.afy, m.afz) = [i \in 0..2 |-> ToFloat(a.af[i])]

C5_Witness ==
    /\ call.op = LocalNED
    /\ call.args.p = Vec3(-BigOdd, 0, Pow2(24) + 3)
    /\ call.args.v = Vec3(1, 2, 3)
    /\ tx[1].x = -Pow2(24)
    /\ tx[1].z = Pow2(24) + 4
    /\ tx[1].vy = 2

\* C6 (as claimed): body_roll_rate, body_pitch_rate, body_yaw_rate equal
\* axes 0, 1, 2 of body_rate; time_boot_ms, type_mask and thrust equal the
\* arguments; q is what the quaternion-to-wire conversion wrote.
C6_RatesEqualAxes ==
    call.op = Attitude =>
        LET m == tx[1]
            a == call.args
        IN  /\ Vec3(m.body_roll_rate, m.body_pitch_rate, m.body_yaw_rate)
                 = a.body_rate
            /\ m.time_boot_ms = a.time_boot_ms
            /\ m.type_mask = a.type_mask
            /\ m.thrust = a.thrust
            /\ m.q = quaternion_to_mavlink(a.orientation)

\* C6 (amended): body_roll_rate, body_pitch_rate, body_yaw_rate hold axes
\* 0, 1, 2 of body_rate converted from double to single precision (no
\* coordinate transform); time_boot_ms, type_mask and thrust equal the
\* arguments; q is what the quaternion-to-wire conversion wrote.
C6_RatesAreNarrowedAxes ==
    call.op = Attitude =>
        LET m == tx[1]
            a == call.args
        IN  /\ Vec3(m.body_roll_rate, m.body_pitch_rate, m.body_yaw_rate)
                 = [i \in 0..2 |-> ToFloat(a.body_rate[i])]
            /\ m.time_boot_ms = a.time_boot_ms
            /\ m.type_mask = a.type_mask
            /\ m.thrust = a.thrust
            /\ m.q = quaternion_to_mavlink(a.orientation)

C6_Witness ==
    /\ call.op = Attitude
    /\ call.args.body_rate = Vec3(-BigOdd, 0, Pow2(24) + 3)
    /\ call.args.orientation = Quat(0, BigOdd, -2, 3)
    /\ tx[1].body_roll_rate = -Pow2(24)
    /\ tx[1].body_yaw_rate = Pow2(24) + 4
    /\ tx[1].q = <<0, Pow2(24), -2, 3>>

SameArguments == call.op # "none" /\ call.op = prev_call.op /\ call.args = prev_call.args

\* C7 (as claimed): two calls of the same encoder with identical arguments
\* produce identical messages, whatever the state of the system.
C7_SameArgsSameMessage == SameArguments => tx = prev_tx

\* C7 (amended): the message depends on the arguments and on the UAS target
\* only: target_system and target_component hold the UAS target of the
\* moment of the call, and two calls of the same encoder with identical
\* arguments produce messages that agree in every other field (so they are
\* identical when the UAS target is the same).
C7_SameArgsSameButTarget ==
    /\ call.op # "none" =>
         /\ tx[1].target_system = call.uas.tgt_system
         /\ tx[1].target_component = call.uas.tgt_component
    /\ SameArguments =>
         /\ tx[1] = msg_set_target(call.uas, prev_tx[1])
         /\ (call.uas = prev_call.uas => tx = prev_tx)

C7_Witness ==
    /\ SameArguments
    /\ call.op = GlobalInt
    /\ call.uas # prev_call.uas
    /\ tx # prev_tx

WireName(op) ==
    IF op = LocalNED THEN "SET_POSITION_TARGET_LOCAL_NED"
    ELSE IF op = GlobalInt THEN "SET_POSITION_TARGET_GLOBAL_INT"
    ELSE "SET_ATTITUDE_TARGET"

\* C8 (as claimed): a call of an encoder by itself hands nothing to the
\* transport.
C8_EncoderDoesNotSend == call.op # "none" => tx = <<>>

\* C8 (amended): every call of an encoder itself hands exactly one message
\* to the transport, the one it built from its arguments, as its last step;
\* there is no separate send call.
C8_EncoderSendsOnce ==
    call.op # "none" =>
        /\ Len(tx) = 1
        /\ tx[1].name = WireName(call.op)
        /\ tx[1].time_boot_ms = call.args.time_boot_ms
        /\ tx[1].type_mask = call.args.type_mask

C8_Witness ==
    /\ call.op = LocalNED
    /\ prev_call.op = Attitude
    /\ Len(tx) = 1
    /\ Len(prev_tx) = 1
    /\ tx[1].name = "SET_POSITION_TARGET_LOCAL_NED"

===========================================================================
